---- MODULE Spec2Model ----
(***************************************************************************)
(* The example scripts of coval-examples as one state machine: a run of    *)
(* the machine is one process executing one script's main().  The state    *)
(* holds the script's configuration block, its position in main(), the     *)
(* locals the claims speak about, the console output, the network calls    *)
(* issued so far and the state of the remote services touched.             *)
(*                                                                         *)
(* Python dicts (JSON bodies, messages, payloads) are functions whose      *)
(* DOMAIN is the set of keys present; d.get(k, dflt) is Get(d, k, dflt).   *)
(* Python None is the string None.  Seconds are fixed-point thousandths:   *)
(* the integer 1500 stands for 1.5 s (float rounding is outside the model).*)
(***************************************************************************)
EXTENDS Integers, Sequences, FiniteSets, TLC

VARIABLES
    script,        \* which script this process runs
    pc,            \* position in main()
    cfg,           \* names of the configuration block still at their placeholder
    calls,         \* network / provider-SDK calls issued so far, in order
    stdout,        \* console output, one <<text, argument>> per print of interest
    exit_code,     \* process exit code, meaningful once pc = "exit"
    run_id,        \* launch_run.py main(): run_id
    status,        \* launch_run.py main(): status
    responses,     \* responses received by get_run_status, in order
    remote,        \* status of the run on the evaluation service
    audio_url,     \* upload scripts: the audio URL held by main()
    call_data,     \* twilio_upload.py, vapi_upload.py main(): call_data
    transcript,    \* vapi_upload.py main(): transcript
    result,        \* upload scripts main(): result of upload_to_coval
    test_cases,    \* generate_test_set.py main(): test_cases
    test_set_id,   \* generate_test_set.py main(): test_set_id
    created,       \* test cases created on the evaluation service, in order
    optional       \* optional values of the configuration block

pollVars == <<run_id, status, responses, remote>>

uploadVars == <<audio_url, call_data, transcript, result>>

genVars == <<test_cases, test_set_id, created>>

vars == <<script, pc, cfg, calls, stdout, exit_code, pollVars, uploadVars,
          genVars, optional>>

----------------------------------------------------------------------------
(* Bounds of the model *)

\* Status queries explored per run (the loop itself has no bound).
MaxQueries == 3

\* Messages in a Vapi call.
MaxMessages == 3

\* Test cases the LLM generates.
MaxCases == 2

----------------------------------------------------------------------------
(* Python values *)

None == "<None>"

Empty == [k \in {} |-> None]

Get(d, k, dflt) == IF k \in DOMAIN d THEN d[k] ELSE dflt

\* Mutant: only None counts as false (`is None` in place of `not`).
Truthy_NoneOnly(x) == x # None

\* Truth value of a str-or-None, as `if not x` tests it.
Truthy(x) == x # None /\ x # ""

\* Python None where the value is otherwise a dict.
NoneDict == [None |-> None]

\* Truth value of a dict-or-None.
TruthyDict(d) == d # NoneDict /\ d # Empty

Last(s) == s[Len(s)]

----------------------------------------------------------------------------
(* The evaluation service as seen over HTTP *)

NonTerminal == {"QUEUED", "RUNNING"}

Terminal == {"COMPLETED", "FAILED", "CANCELLED"}

Statuses == NonTerminal \cup Terminal

RunIds == {"r1", "r2"}

\* requests raises Timeout, raises another RequestException, or returns a
\* response with a status code and a JSON body.
Timeout == [kind |-> "timeout", code |-> 0, body |-> Empty]

NetworkError == [kind |-> "error", code |-> 0, body |-> Empty]

Http(code, body) == [kind |-> "http", code |-> code, body |-> body]

Rejections == {Http(c, Empty) : c \in {404, 500}}

Failures == {Timeout, NetworkError} \cup Rejections

\* The "run" object of a 200 body: each key present or missing, a present
\* value a string, the empty string or null.
RunDicts ==
    {d \in UNION {[K -> RunIds \cup Statuses \cup {"", None}] :
                      K \in SUBSET {"run_id", "status"}} :
        /\ "run_id" \in DOMAIN d => d["run_id"] \in RunIds \cup {"", None}
        /\ "status" \in DOMAIN d => d["status"] \in Statuses \cup {"", None}}

RunBodies == {Empty} \cup {[run |-> d] : d \in RunDicts}

\* What the service may answer to POST /v1/runs.
LaunchResponses == Failures \cup {Http(200, b) : b \in RunBodies}

\* What the service may answer to GET /v1/runs/{run_id} while the run has
\* status st: a failure, the run with its status, or a 200 body without a
\* usable run.status.
StatusResponses(id, st) ==
    Failures
    \cup {Http(200, [run |-> [run_id |-> id, status |-> st]])}
    \cup {Http(200, Empty), Http(200, [run |-> [run_id |-> id]]),
          Http(200, [run |-> [run_id |-> id, status |-> None]]),
          Http(200, [run |-> [run_id |-> id, status |-> ""]])}

RUNS_API_URL == "https://api.coval.dev/v1/runs"

\* A call issued: its method, its target, the resource named in the path (or
\* "") and the response it got.
Call(method, url, arg, resp) ==
    [method |-> method, url |-> url, arg |-> arg, resp |-> resp]

\* requests.post(url, json=payload, ...): a call that carries a JSON body.
Post(url, arg, payload, resp) ==
    [method |-> "POST", url |-> url, arg |-> arg, resp |-> resp,
     payload |-> payload]

----------------------------------------------------------------------------
(* Configuration blocks and the placeholder checks of main() *)

Scripts ==
    {"launch_run", "aws_upload", "gcp_upload", "generic_signed_url_upload",
     "twilio_upload", "vapi_upload", "generate_test_set"}

\* The required identifiers and keys of each script's configuration block:
\* those assigned a "your..." / example placeholder that the script needs to
\* reach its services.
Required(s) ==
    CASE s = "launch_run" ->
           {"COVAL_API_KEY", "AGENT_ID", "PERSONA_ID", "TEST_SET_ID"}
      [] s = "aws_upload" ->
           {"COVAL_API_KEY", "S3_BUCKET_NAME", "S3_OBJECT_KEY"}
      [] s = "gcp_upload" ->
           {"COVAL_API_KEY", "GCS_BUCKET_NAME", "GCS_BLOB_PATH"}
      [] s = "generic_signed_url_upload" ->
           {"COVAL_API_KEY", "AUDIO_SIGNED_URL"}
      [] s = "twilio_upload" ->
           {"TWILIO_ACCOUNT_SID", "TWILIO_AUTH_TOKEN", "COVAL_API_KEY", "CALL_SID"}
      [] s = "vapi_upload" ->
           {"VAPI_API_KEY", "COVAL_API_KEY", "CALL_ID"}
      [] s = "generate_test_set" ->
           {"COVAL_API_KEY", "OPENAI_API_KEY"}

\* The names main() compares with their placeholder, in the order tested.
Checked(s) ==
    CASE s = "launch_run" ->
           <<"COVAL_API_KEY", "AGENT_ID", "PERSONA_ID", "TEST_SET_ID">>
      [] s = "aws_upload" ->
           <<"COVAL_API_KEY", "S3_BUCKET_NAME", "S3_OBJECT_KEY">>
      [] s = "gcp_upload" ->
           <<"COVAL_API_KEY", "GCS_BUCKET_NAME", "GCS_BLOB_PATH">>
      [] s = "generic_signed_url_upload" ->
           <<"COVAL_API_KEY", "AUDIO_SIGNED_URL">>
      [] s = "twilio_upload" ->
           <<"TWILIO_ACCOUNT_SID", "COVAL_API_KEY", "CALL_SID">>
      [] s = "vapi_upload" ->
           <<"VAPI_API_KEY", "COVAL_API_KEY", "CALL_ID">>
      [] s = "generate_test_set" ->
           <<"COVAL_API_KEY", "OPENAI_API_KEY">>

\* Position after the checks.
AfterChecks(s) ==
    CASE s = "launch_run" -> "launch"
      [] s = "aws_upload" -> "presign"
      [] s = "gcp_upload" -> "sign"
      [] s = "generic_signed_url_upload" -> "validate"
      [] s = "twilio_upload" -> "fetch"
      [] s = "vapi_upload" -> "fetch"
      [] s = "generate_test_set" -> "generate"

\* Index of the first failing check, 0 when all pass.
FirstPlaceholder(s, c) ==
    LET bad == {i \in 1..Len(Checked(s)) : Checked(s)[i] \in c}
    IN  IF bad = {} THEN 0 ELSE CHOOSE i \in bad : \A j \in bad : i <= j

\* main(): the sequence of `if X == "placeholder": print(...); sys.exit(1)`;
\* in generate_test_set.py the get_required_env calls, which exit when the
\* environment variable is unset or empty.
CheckConfig ==
    /\ pc = "start"
    /\ LET i == FirstPlaceholder(script, cfg)
       IN  IF i # 0
           THEN /\ stdout' = Append(stdout,
                               <<IF script = "generate_test_set"
                                 THEN "Error: environment variable is required"
                                 ELSE "Error: Please update",
                                 Checked(script)[i]>>)
                /\ pc' = "exit"
                /\ exit_code' = 1
           ELSE /\ pc' = AfterChecks(script)
                /\ UNCHANGED <<stdout, exit_code>>
    /\ UNCHANGED <<script, optional, genVars, cfg, calls, pollVars, uploadVars>>

----------------------------------------------------------------------------
(* Optional configuration values and the request payloads built from them *)

\* datetime.utcnow().isoformat(), the time of the run.
UtcNow == "<utcnow>"

\* METRIC_IDS: the empty list of the examples or a list of metric ids.
MetricIds == {<<>>, <<"metric1">>}

\* OCCURRED_AT: None or an ISO timestamp.
OccurredAts == {None, "2024-01-01T00:00:00Z"}

\* TRANSCRIPT of generic_signed_url_upload.py: no transcript (None and []
\* take the same branch, <<>> stands for both) or a list of entries.
Transcripts ==
    {<<>>, <<[role |-> "user", content |-> "hi", start_time |-> 0, end_time |-> 1000]>>}

\* METADATA of generic_signed_url_upload.py: None, {} or a dictionary, one
\* of them with a key named like a field of the service's answer.
Metadatas == {NoneDict, Empty, [platform |-> "your-platform-name", status |-> "ended"]}

\* The optional values a script's configuration block may hold; a script
\* that has no such value holds the fixed one.
OptionalValues(s) ==
    [METRIC_IDS : IF s = "generate_test_set" THEN {<<>>} ELSE MetricIds,
     OCCURRED_AT : IF s \in {"aws_upload", "gcp_upload", "generic_signed_url_upload"}
                   THEN OccurredAts ELSE {None},
     EXTERNAL_CONVERSATION_ID : IF s = "generic_signed_url_upload"
                                THEN {None, "conversation-123"}
                                ELSE {"conversation-123"},
     TRANSCRIPT : IF s = "generic_signed_url_upload" THEN Transcripts ELSE {<<>>},
     METADATA : IF s = "generic_signed_url_upload" THEN Metadatas ELSE {NoneDict}]

\* launch_run(): payload.
LaunchPayload(agent_id, persona_id, set_id, metric_ids, iteration_count, concurrency) ==
    LET payload == [agent_id |-> agent_id, persona_id |-> persona_id,
                    test_set_id |-> set_id,
                    options |-> [iteration_count |-> iteration_count,
                                 concurrency |-> concurrency]]
    IN  IF metric_ids # <<>>
        THEN ("metric_ids" :> metric_ids) @@ payload
        ELSE payload

\* aws_upload.py upload_to_coval(): payload.
AwsPayload(url, external_conversation_id, occurred_at, metric_ids) ==
    LET payload == [audio_url |-> url,
                    external_conversation_id |-> external_conversation_id,
                    occurred_at |-> IF Truthy(occurred_at) THEN occurred_at ELSE UtcNow,
                    metadata |-> [platform |-> "aws", bucket |-> "bucket",
                                  source |-> "s3"]]
    IN  IF metric_ids # <<>> THEN ("metrics" :> metric_ids) @@ payload ELSE payload

\* gcp_upload.py upload_to_coval(): payload.
GcpPayload(url, external_conversation_id, occurred_at, metric_ids) ==
    LET payload == [audio_url |-> url,
                    external_conversation_id |-> external_conversation_id,
                    occurred_at |-> IF Truthy(occurred_at) THEN occurred_at ELSE UtcNow,
                    metadata |-> [platform |-> "gcp", bucket |-> "bucket",
                                  source |-> "cloud-storage"]]
    IN  IF metric_ids # <<>> THEN ("metrics" :> metric_ids) @@ payload ELSE payload

\* generic_signed_url_upload.py upload_to_coval(): payload.
GenericPayload(url, entries, external_conversation_id, occurred_at, metadata, metrics) ==
    LET p1 == [audio_url |-> url]
        p2 == IF entries # <<>> THEN ("transcript" :> entries) @@ p1 ELSE p1
        p3 == IF Truthy(external_conversation_id)
              THEN ("external_conversation_id" :> external_conversation_id) @@ p2
              ELSE p2
        p4 == ("occurred_at" :> IF Truthy(occurred_at) THEN occurred_at ELSE UtcNow) @@ p3
        p5 == IF TruthyDict(metadata) THEN ("metadata" :> metadata) @@ p4 ELSE p4
    IN  IF metrics # <<>> THEN ("metrics" :> metrics) @@ p5 ELSE p5

\* datetime.isoformat() on the start time the Twilio SDK returns.
IsoFormat(t) ==
    IF t = "datetime(2024, 1, 1, 10, 0)" THEN "2024-01-01T10:00:00" ELSE t

\* Mutant: the status of the call is written at the top level of the payload.
TwilioPayload_StatusAtTopLevel(data, url, metric_ids) ==
    [external_conversation_id |-> data["call_sid"],
     occurred_at |-> data["start_time"],
     status |-> data["status"],
     metadata |-> [platform |-> "twilio", call_sid |-> data["call_sid"]]]

\* twilio_upload.py upload_to_coval(): payload.
TwilioPayload(data, url, metric_ids) ==
    LET payload == [external_conversation_id |-> data["call_sid"],
                    occurred_at |-> IF Truthy(data["start_time"])
                                    THEN IsoFormat(data["start_time"]) ELSE UtcNow,
                    metadata |-> [platform |-> "twilio",
                                  call_sid |-> data["call_sid"],
                                  recording_sid |-> data["recording_sid"],
                                  from |-> data["from_number"],
                                  to |-> data["to_number"],
                                  duration |-> data["duration"],
                                  status |-> data["status"],
                                  direction |-> data["direction"]]]
        p2 == IF Truthy(url) THEN ("audio_url" :> url) @@ payload ELSE payload
    IN  IF metric_ids # <<>> THEN ("metrics" :> metric_ids) @@ p2 ELSE p2

\* vapi_upload.py upload_to_coval(): payload.
VapiPayload(data, entries, metric_ids) ==
    LET url == IF Truthy(Get(data, "stereoRecordingUrl", None))
               THEN data["stereoRecordingUrl"]
               ELSE Get(data, "recordingUrl", None)
        meta == [platform |-> "vapi",
                 vapi_call_id |-> Get(data, "id", None),
                 status |-> Get(data, "status", None),
                 type |-> Get(data, "type", None),
                 assistant_id |-> Get(data, "assistantId", None)]
        m2 == IF "customer" \in DOMAIN data
              THEN ("customer_number" :> Get(data["customer"], "number", None)) @@ meta
              ELSE meta
        m3 == IF "endedReason" \in DOMAIN data
              THEN ("ended_reason" :> data["endedReason"]) @@ m2
              ELSE m2
        payload == [transcript |-> entries,
                    external_conversation_id |-> Get(data, "id", None),
                    occurred_at |-> IF Truthy(Get(data, "startedAt", None))
                                    THEN data["startedAt"]
                                    ELSE IF Truthy(Get(data, "createdAt", None))
                                    THEN data["createdAt"]
                                    ELSE UtcNow,
                    metadata |-> m3]
        p2 == IF Truthy(url) THEN ("audio_url" :> url) @@ payload ELSE payload
    IN  IF metric_ids # <<>> THEN ("metrics" :> metric_ids) @@ p2 ELSE p2

\* generate_test_set.py: TEST_SET_CONFIG, the body of POST /test-sets.
TEST_SET_CONFIG ==
    [display_name |-> "LLM Generated Test Cases",
     description |-> "Test cases generated via OpenAI",
     test_set_type |-> "SCENARIO"]

\* generate_test_set.py create_test_case(): payload.
TestCasePayload(set_id, test_case) ==
    [test_set_id |-> set_id,
     input_str |-> Get(test_case, "input", Get(test_case, "input_str", "")),
     expected_output_str |-> Get(test_case, "expected_output",
                                 Get(test_case, "expected_output_str", None)),
     description |-> Get(test_case, "description", None)]

----------------------------------------------------------------------------
(* launch_run.py *)

\* Mutant: the status is returned in place of the identifier.
launch_run_ReturnsStatus(resp) ==
    IF resp.kind = "http" /\ resp.code = 200
    THEN LET run == Get(resp.body, "run", Empty)
             id  == Get(run, "run_id", None)
             st  == Get(run, "status", None)
         IN  [ret |-> st,
              out |-> <<<<"Run launched successfully", "">>,
                        <<"Run ID", id>>, <<"Status", st>>>>]
    ELSE [ret |-> None, out |-> <<<<"Failed to launch run", "">>>>]

\* launch_run(): what it returns and prints for a response to its POST.
launch_run(resp) ==
    IF resp.kind = "http" /\ resp.code = 200
    THEN LET run == Get(resp.body, "run", Empty)
             id  == Get(run, "run_id", None)
             st  == Get(run, "status", None)
         IN  [ret |-> id,
              out |-> <<<<"Run launched successfully", "">>,
                        <<"Run ID", id>>, <<"Status", st>>>>]
    ELSE IF resp.kind = "http"
    THEN [ret |-> None,
          out |-> <<<<"Failed to launch run", ToString(resp.code)>>>>]
    ELSE IF resp.kind = "timeout"
    THEN [ret |-> None, out |-> <<<<"Error: Request timed out", "">>>>]
    ELSE [ret |-> None, out |-> <<<<"Error launching run", "">>>>]

\* Mutant: a 200 body without a status yields the default "UNKNOWN".
get_run_status_DefaultUnknown(resp) ==
    IF resp.kind = "http" /\ resp.code = 200
    THEN LET run == Get(resp.body, "run", Empty)
         IN  [ret |-> Get(run, "status", "UNKNOWN"), out |-> <<>>]
    ELSE [ret |-> None, out |-> <<<<"Failed to get run status", ToString(resp.code)>>>>]

\* get_run_status(): what it returns and prints for a response to its GET.
get_run_status(resp) ==
    IF resp.kind = "http" /\ resp.code = 200
    THEN LET run == Get(resp.body, "run", Empty)
         IN  [ret |-> Get(run, "status", None), out |-> <<>>]
    ELSE IF resp.kind = "http"
    THEN [ret |-> None,
          out |-> <<<<"Failed to get run status", ToString(resp.code)>>>>]
    ELSE IF resp.kind = "timeout"
    THEN [ret |-> None, out |-> <<<<"Error: Request timed out", "">>>>]
    ELSE [ret |-> None, out |-> <<<<"Error getting run status", "">>>>]

\* Mutant: "FAILED" left out of the terminal list.
IsTerminal_NoFailed(st) == st \in {"COMPLETED", "CANCELLED"}

\* Mutant: "CANCELLED" left out of the terminal list.
IsTerminal_NoCancelled(st) == st \in {"COMPLETED", "FAILED"}

\* `status in ["COMPLETED", "FAILED", "CANCELLED"]`
IsTerminal(st) == st \in {"COMPLETED", "FAILED", "CANCELLED"}

\* Mutant: the `if not status: break` is missing.
Breaks_OnlyTerminal(st, n) == IsTerminal(st)

\* Mutant: the terminal break is missing.
Breaks_OnlyFalsy(st, n) == ~Truthy(st)

\* Mutant: the loop gives up after two queries.
Breaks_Capped(st, n) == ~Truthy(st) \/ IsTerminal(st) \/ n >= 2

\* Whether an iteration of the polling loop leaves the loop on status st,
\* the n-th status returned: `if not status: break` or the terminal break.
Breaks(st, n) == ~Truthy(st) \/ IsTerminal(st)

\* main(): run_id = launch_run(...); if not run_id: exit(1).  A run the
\* service accepts exists from then on, with the status it answered (any
\* status when the body names none).
LaunchRun ==
    /\ pc = "launch"
    /\ \E resp \in LaunchResponses :
         LET r == launch_run(resp)
         IN  /\ calls' = Append(calls,
                   Post(RUNS_API_URL, "",
                        LaunchPayload("agent", "persona", "testset",
                                      optional.METRIC_IDS, 1, 1),
                        resp))
             /\ run_id' = r.ret
             /\ IF resp.kind = "http" /\ resp.code = 200
                THEN \E st \in Statuses :
                       /\ Get(Get(resp.body, "run", Empty), "status", st) \in {st, "", None}
                       /\ remote' = st
                ELSE remote' = remote
             /\ IF ~Truthy(r.ret)
                THEN /\ stdout' = stdout \o r.out \o <<<<"Failed to launch run", "">>>>
                     /\ pc' = "exit"
                     /\ exit_code' = 1
                ELSE /\ stdout' = stdout \o r.out \o <<<<"Monitoring run status...", "">>>>
                     /\ pc' = "poll"
                     /\ UNCHANGED exit_code
    /\ UNCHANGED <<script, optional, genVars, cfg, status, responses, uploadVars>>

\* Mutant: after a query that returned no status, the status held from the
\* query before is printed.
PollQuery_ReportsLastKnown ==
    /\ pc = "poll"
    /\ Len(responses) < MaxQueries
    /\ \E resp \in StatusResponses(run_id, remote) :
         LET r  == get_run_status(resp)
             st == r.ret
         IN  /\ calls' = Append(calls, Call("GET", RUNS_API_URL, run_id, resp))
             /\ responses' = Append(responses, resp)
             /\ status' = st
             /\ IF ~Truthy(st)
                THEN stdout' = stdout \o r.out \o <<<<"Last known status", status>>>>
                ELSE IF IsTerminal(st)
                THEN stdout' = stdout \o r.out
                                 \o <<<<"Current status", st>>,
                                      <<"Run finished with status", st>>>>
                ELSE stdout' = stdout \o r.out \o <<<<"Current status", st>>>>
             /\ IF Breaks(st, Len(responses) + 1)
                THEN pc' = "exit" /\ exit_code' = 0
                ELSE pc' = "sleep" /\ UNCHANGED exit_code
    /\ UNCHANGED <<script, optional, genVars, cfg, run_id, remote, uploadVars>>

\* main(): one iteration of `while True` up to the sleep.
PollQuery ==
    /\ pc = "poll"
    /\ Len(responses) < MaxQueries
    /\ \E resp \in StatusResponses(run_id, remote) :
         LET r  == get_run_status(resp)
             st == r.ret
         IN  /\ calls' = Append(calls, Call("GET", RUNS_API_URL, run_id, resp))
             /\ responses' = Append(responses, resp)
             /\ status' = st
             /\ IF ~Truthy(st)
                THEN stdout' = stdout \o r.out
                ELSE IF IsTerminal(st)
                THEN stdout' = stdout \o r.out
                                 \o <<<<"Current status", st>>,
                                      <<"Run finished with status", st>>>>
                ELSE stdout' = stdout \o r.out \o <<<<"Current status", st>>>>
             /\ IF Breaks(st, Len(responses) + 1)
                THEN pc' = "exit" /\ exit_code' = 0
                ELSE pc' = "sleep" /\ UNCHANGED exit_code
    /\ UNCHANGED <<script, optional, genVars, cfg, run_id, remote, uploadVars>>

\* main(): time.sleep(POLL_INTERVAL_SECONDS), then the next iteration.
PollSleep ==
    /\ pc = "sleep"
    /\ pc' = "poll"
    /\ UNCHANGED <<script, optional, genVars, cfg, calls, stdout, exit_code, pollVars, uploadVars>>

\* The evaluation service moves the run from a non-terminal status to any
\* other status; a terminal status never changes.
RemoteAdvance ==
    /\ script = "launch_run"
    /\ pc \in {"poll", "sleep"}
    /\ Len(responses) < MaxQueries
    /\ remote \in NonTerminal
    /\ remote' \in Statuses \ {remote}
    /\ UNCHANGED <<script, optional, genVars, pc, cfg, calls, stdout, exit_code, run_id, status,
                   responses, uploadVars>>

----------------------------------------------------------------------------
(* Upload scripts: the submission shared by the five upload-conversations   *)
(* scripts, whose upload_to_coval differ in the payload only.               *)

COVAL_API_URL == "https://api.coval.dev/v1/conversations:submit"

ConversationBodies ==
    {Empty, [conversation |-> Empty],
     [conversation |-> [conversation_id |-> "c1", status |-> "PENDING"]]}

\* What the service may answer to POST /v1/conversations:submit.
UploadResponses == Failures \cup {Http(200, b) : b \in ConversationBodies}

\* Mutant: the status code is not tested, the body is returned whatever it is.
upload_to_coval_NoStatusCheck(resp) ==
    IF resp.kind = "http"
    THEN [ret |-> resp.body, out |-> <<<<"Successfully uploaded to Coval", "">>>>]
    ELSE [ret |-> NoneDict, out |-> <<<<"Error uploading to Coval", "">>>>]

\* upload_to_coval(): what it returns and prints for a response to its POST.
upload_to_coval(resp) ==
    IF resp.kind = "http" /\ resp.code = 200
    THEN LET conversation == Get(resp.body, "conversation", Empty)
         IN  [ret |-> resp.body,
              out |-> <<<<"Successfully uploaded to Coval", "">>,
                        <<"Conversation ID", Get(conversation, "conversation_id", None)>>,
                        <<"Status", Get(conversation, "status", None)>>>>]
    ELSE IF resp.kind = "http"
    THEN [ret |-> NoneDict,
          out |-> <<<<"Failed to upload to Coval", ToString(resp.code)>>>>]
    ELSE IF resp.kind = "timeout"
    THEN [ret |-> NoneDict, out |-> <<<<"Error: Request timed out", "">>>>]
    ELSE [ret |-> NoneDict, out |-> <<<<"Error uploading to Coval", "">>>>]

\* The payload upload_to_coval() of the running script builds from the
\* arguments main() passes and from the script's configuration.
UploadPayload ==
    CASE script = "aws_upload" ->
           AwsPayload(audio_url, optional.EXTERNAL_CONVERSATION_ID,
                      optional.OCCURRED_AT, optional.METRIC_IDS)
      [] script = "gcp_upload" ->
           GcpPayload(audio_url, optional.EXTERNAL_CONVERSATION_ID,
                      optional.OCCURRED_AT, optional.METRIC_IDS)
      [] script = "generic_signed_url_upload" ->
           GenericPayload(audio_url, optional.TRANSCRIPT,
                          optional.EXTERNAL_CONVERSATION_ID, optional.OCCURRED_AT,
                          optional.METADATA, optional.METRIC_IDS)
      [] script = "twilio_upload" ->
           TwilioPayload(call_data, audio_url, optional.METRIC_IDS)
      [] script = "vapi_upload" ->
           VapiPayload(call_data, transcript, optional.METRIC_IDS)

\* Mutant: a failed upload is attempted a second time.
Upload_RetriesOnce ==
    /\ pc = "upload"
    /\ \E resp \in UploadResponses :
         LET r == upload_to_coval(resp)
         IN  /\ result' = r.ret
             /\ pc' = "exit"
             /\ IF ~TruthyDict(r.ret)
                THEN /\ calls' = calls \o <<Post(COVAL_API_URL, "", UploadPayload, resp),
                                            Post(COVAL_API_URL, "", UploadPayload, resp)>>
                     /\ stdout' = stdout \o r.out \o r.out \o <<<<"Upload failed", "">>>>
                     /\ exit_code' = 1
                ELSE /\ calls' = Append(calls, Post(COVAL_API_URL, "", UploadPayload, resp))
                     /\ stdout' = stdout \o r.out
                     /\ exit_code' = 0
    /\ UNCHANGED <<script, optional, genVars, cfg, pollVars, audio_url, call_data, transcript>>

\* main(): result = upload_to_coval(...); if not result: exit(1).
Upload ==
    /\ pc = "upload"
    /\ \E resp \in UploadResponses :
         LET r == upload_to_coval(resp)
         IN  /\ calls' = Append(calls, Post(COVAL_API_URL, "", UploadPayload, resp))
             /\ result' = r.ret
             /\ pc' = "exit"
             /\ IF ~TruthyDict(r.ret)
                THEN /\ stdout' = stdout \o r.out \o <<<<"Upload failed", "">>>>
                     /\ exit_code' = 1
                ELSE /\ stdout' = stdout \o r.out
                     /\ exit_code' = 0
    /\ UNCHANGED <<script, optional, genVars, cfg, pollVars, audio_url, call_data, transcript>>

----------------------------------------------------------------------------
(* aws_upload.py *)

MAX_FILE_SIZE_MB == 200

\* ContentLength values: 1 MB, exactly the limit, one byte over it.
ContentLengths ==
    {1024 * 1024, MAX_FILE_SIZE_MB * 1024 * 1024, MAX_FILE_SIZE_MB * 1024 * 1024 + 1}

\* Outcomes of s3_client.head_object: the object's metadata, a ClientError
\* (404 or another code) or any other exception.
HeadObjectOutcomes ==
    {[kind |-> "ok", code |-> 200, body |-> [ContentLength |-> n]] :
        n \in ContentLengths}
    \cup {[kind |-> "ClientError", code |-> c, body |-> Empty] : c \in {403, 404}}
    \cup {[kind |-> "Exception", code |-> 0, body |-> Empty]}

S3Url == "https://bucket.s3.amazonaws.com/audio.wav?X-Amz-Signature=1"

\* Mutant: the size of the object is not tested.
generate_presigned_url_NoSizeCheck(head, signing_raises) ==
    IF head.kind = "ok" /\ ~signing_raises
    THEN [ret |-> S3Url, out |-> <<<<"Presigned URL generated successfully", "">>>>]
    ELSE [ret |-> None, out |-> <<<<"Error generating presigned URL", "">>>>]

\* generate_presigned_url(): the URL or None, for the outcome of head_object
\* and whether the signing call raises.
generate_presigned_url(head, signing_raises) ==
    IF head.kind = "ok"
    THEN IF head.body["ContentLength"] > MAX_FILE_SIZE_MB * 1024 * 1024
         THEN [ret |-> None, out |-> <<<<"Error: File too large", "">>>>]
         ELSE IF signing_raises
         THEN [ret |-> None, out |-> <<<<"AWS Error", "">>>>]
         ELSE [ret |-> S3Url,
               out |-> <<<<"Presigned URL generated successfully", "">>>>]
    ELSE IF head.kind = "ClientError"
    THEN IF head.code = 404
         THEN [ret |-> None, out |-> <<<<"Error: Object not found", "">>>>]
         ELSE [ret |-> None, out |-> <<<<"Error checking object", "">>>>]
    ELSE [ret |-> None, out |-> <<<<"Error generating presigned URL", "">>>>]

\* main(): presigned_url = generate_presigned_url(...); if not: exit(1).
Presign ==
    /\ pc = "presign"
    /\ \E head \in HeadObjectOutcomes, signing_raises \in BOOLEAN :
         LET r == generate_presigned_url(head, signing_raises)
         IN  /\ calls' = Append(calls, Call("SDK", "s3.head_object", "", head))
             /\ audio_url' = r.ret
             /\ stdout' = stdout \o r.out
             /\ IF ~Truthy(r.ret)
                THEN pc' = "exit" /\ exit_code' = 1
                ELSE pc' = "upload" /\ UNCHANGED exit_code
    /\ UNCHANGED <<script, optional, genVars, cfg, pollVars, call_data, transcript, result>>

----------------------------------------------------------------------------
(* gcp_upload.py *)

\* Outcomes of blob.exists(): True, False or an exception (also one raised
\* by storage.Client()).
BlobExistsOutcomes ==
    {[kind |-> k, code |-> 0, body |-> Empty] : k \in {"True", "False", "Exception"}}

GcsUrl == "https://storage.googleapis.com/bucket/audio.wav?X-Goog-Signature=1"

\* generate_signed_url(): the URL or None, for the outcome of blob.exists()
\* and whether reload or signing raises.
generate_signed_url(exists, later_raises) ==
    IF exists.kind = "True"
    THEN IF later_raises
         THEN [ret |-> None, out |-> <<<<"Error generating signed URL", "">>>>]
         ELSE [ret |-> GcsUrl, out |-> <<<<"Signed URL generated successfully", "">>>>]
    ELSE IF exists.kind = "False"
    THEN [ret |-> None, out |-> <<<<"Error: Blob does not exist", "">>>>]
    ELSE [ret |-> None, out |-> <<<<"Error generating signed URL", "">>>>]

\* main(): signed_url = generate_signed_url(...); if not: exit(1).
Sign ==
    /\ pc = "sign"
    /\ \E exists \in BlobExistsOutcomes, later_raises \in BOOLEAN :
         LET r == generate_signed_url(exists, later_raises)
         IN  /\ calls' = Append(calls, Call("SDK", "gcs.blob.exists", "", exists))
             /\ audio_url' = r.ret
             /\ stdout' = stdout \o r.out
             /\ IF ~Truthy(r.ret)
                THEN pc' = "exit" /\ exit_code' = 1
                ELSE pc' = "upload" /\ UNCHANGED exit_code
    /\ UNCHANGED <<script, optional, genVars, cfg, pollVars, call_data, transcript, result>>

----------------------------------------------------------------------------
(* generic_signed_url_upload.py *)

AUDIO_SIGNED_URL ==
    "https://your-platform.com/recordings/conversation.wav?signature=abc123"

\* Values the operator may give AUDIO_SIGNED_URL.
SignedUrls ==
    {"https://cdn.example.com/conversation.wav?sig=1",
     "http://cdn.example.com/conversation.wav"}

\* url.startswith("https://")
StartsWithHttps(url) ==
    url \in {AUDIO_SIGNED_URL, S3Url, GcsUrl,
             "https://cdn.example.com/conversation.wav?sig=1"}

\* Outcomes of requests.head(url): a failure, or a response whose
\* Content-Length header is missing or present.
HeadResponses ==
    Failures \cup {Http(200, Empty)}
    \cup {Http(200, [ContentLength |-> n]) : n \in ContentLengths}

\* validate_audio_url(), for a URL that uses HTTPS, on the response to HEAD.
validate_audio_url(resp) ==
    IF resp.kind = "http" /\ resp.code = 200
    THEN IF "ContentLength" \in DOMAIN resp.body
            /\ resp.body["ContentLength"] > MAX_FILE_SIZE_MB * 1024 * 1024
         THEN FALSE
         ELSE TRUE
    ELSE IF resp.kind = "http"
    THEN FALSE
    ELSE TRUE

\* main(): if not validate_audio_url(AUDIO_SIGNED_URL): print a warning;
\* the upload follows in both cases.
Validate ==
    /\ pc = "validate"
    /\ IF ~StartsWithHttps(audio_url)
       THEN /\ stdout' = stdout \o <<<<"Error: URL must use HTTPS protocol", "">>,
                                      <<"Warning: URL validation failed", "">>>>
            /\ UNCHANGED calls
       ELSE \E resp \in HeadResponses :
              /\ calls' = Append(calls, Call("HEAD", audio_url, "", resp))
              /\ stdout' = IF validate_audio_url(resp)
                           THEN stdout
                           ELSE Append(stdout, <<"Warning: URL validation failed", "">>)
    /\ pc' = "upload"
    /\ UNCHANGED <<script, optional, genVars, cfg, exit_code, pollVars, uploadVars>>

----------------------------------------------------------------------------
(* twilio_upload.py *)

\* Outcomes of client.calls(call_sid).fetch() followed by
\* client.recordings.list(...): an exception in either, no recording, or a
\* recording.
TwilioOutcomes ==
    {[kind |-> k, code |-> 0, body |-> Empty] :
        k \in {"FetchException", "ListException", "NoRecordings"}}
    \cup {[kind |-> "ok", code |-> 0,
           body |-> [call_sid |-> "CA1", recording_sid |-> "RE1",
                     recording_url |-> "https://api.twilio.com/Recordings/RE1.mp3",
                     from_number |-> "+15550001", to_number |-> "+15550002",
                     duration |-> "42", start_time |-> t,
                     status |-> "completed", direction |-> "inbound"]] :
        t \in {None, "datetime(2024, 1, 1, 10, 0)"}}

\* get_twilio_call_recording(): call_data or None.
get_twilio_call_recording(outcome) ==
    IF outcome.kind = "ok"
    THEN [ret |-> outcome.body, out |-> <<<<"Call recording found", "RE1">>>>]
    ELSE IF outcome.kind = "NoRecordings"
    THEN [ret |-> NoneDict, out |-> <<<<"Error: No recordings found", "">>>>]
    ELSE [ret |-> NoneDict, out |-> <<<<"Error fetching Twilio call", "">>>>]

\* main(): call_data = get_twilio_call_recording(CALL_SID); if not: exit(1);
\* audio_url = None.
TwilioFetch ==
    /\ script = "twilio_upload"
    /\ pc = "fetch"
    /\ \E outcome \in TwilioOutcomes :
         LET r == get_twilio_call_recording(outcome)
             fetch == Call("SDK", "twilio.calls.fetch", "", outcome)
             list  == Call("SDK", "twilio.recordings.list", "", outcome)
         IN  /\ calls' = IF outcome.kind = "FetchException"
                         THEN Append(calls, fetch)
                         ELSE calls \o <<fetch, list>>
             /\ call_data' = r.ret
             /\ stdout' = stdout \o r.out
             /\ IF ~TruthyDict(r.ret)
                THEN pc' = "exit" /\ exit_code' = 1
                ELSE pc' = "upload" /\ UNCHANGED exit_code
    /\ UNCHANGED <<script, optional, genVars, cfg, pollVars, audio_url, transcript, result>>

----------------------------------------------------------------------------
(* vapi_upload.py *)

VAPI_API_URL == "https://api.vapi.ai/call"

\* Vapi message records: the four roles with text and timing, records
\* without timing, one without a role and one carrying a "time" stamp.
Messages ==
    {[role |-> r, message |-> "hi", secondsFromStart |-> 1000, duration |-> 500] :
        r \in {"user", "bot", "system", "alien"}}
    \cup {[role |-> r, message |-> "hello", secondsFromStart |-> 2000,
           duration |-> 1000] : r \in {"user", "bot", "system", "alien"}}
    \cup {[role |-> r, message |-> "?"] : r \in {"user", "alien"}}
    \cup {[message |-> "hi", secondsFromStart |-> 1000]}
    \cup {[role |-> "bot", message |-> "bye", secondsFromStart |-> 3000,
           duration |-> 250, time |-> 1700000003]}

MessageSeqs == UNION {[1..n -> Messages] : n \in 0..MaxMessages}

\* The JSON object of a call: with or without its "messages".
VapiCalls ==
    {[id |-> "call1", status |-> "ended"],
     [id |-> "call1", status |-> "ended", startedAt |-> "2024-01-01T10:00:00Z",
      recordingUrl |-> "https://storage.vapi.ai/call1.wav",
      customer |-> [number |-> "+15550001"], endedReason |-> "hangup"]}
    \cup {[id |-> "call1", status |-> "ended", messages |-> ms] : ms \in MessageSeqs}

\* What Vapi may answer to GET /call/{call_id}.
VapiResponses == Failures \cup {Http(200, b) : b \in VapiCalls \cup {Empty}}

\* get_vapi_call(): call data or None.
get_vapi_call(resp) ==
    IF resp.kind = "http" /\ resp.code = 200
    THEN [ret |-> resp.body, out |-> <<<<"Call data retrieved successfully", "">>>>]
    ELSE IF resp.kind = "http"
    THEN [ret |-> NoneDict,
          out |-> <<<<"Failed to fetch Vapi call", ToString(resp.code)>>>>]
    ELSE IF resp.kind = "timeout"
    THEN [ret |-> NoneDict, out |-> <<<<"Error: Request timed out", "">>>>]
    ELSE [ret |-> NoneDict, out |-> <<<<"Error fetching Vapi call", "">>>>]

\* main(): call_data = get_vapi_call(CALL_ID); if not call_data: exit(1).
VapiFetch ==
    /\ script = "vapi_upload"
    /\ pc = "fetch"
    /\ \E resp \in VapiResponses :
         LET r == get_vapi_call(resp)
         IN  /\ calls' = Append(calls, Call("GET", VAPI_API_URL, "call1", resp))
             /\ call_data' = r.ret
             /\ stdout' = stdout \o r.out
             /\ IF ~TruthyDict(r.ret)
                THEN pc' = "exit" /\ exit_code' = 1
                ELSE pc' = "transform" /\ UNCHANGED exit_code
    /\ UNCHANGED <<script, optional, genVars, cfg, pollVars, audio_url, transcript, result>>

\* Whole seconds in the fixed-point representation of seconds.
Seconds(n) == n * 1000

\* Mutant: the roles are copied through (no reversal).
MapRole_NoReversal(vapi_role) ==
    IF vapi_role = "user" THEN "user"
    ELSE IF vapi_role = "bot" THEN "assistant"
    ELSE IF vapi_role = "system" THEN "system"
    ELSE None

\* Mutant: "system" messages are not recognised.
MapRole_NoSystem(vapi_role) ==
    IF vapi_role = "user" THEN "assistant"
    ELSE IF vapi_role = "bot" THEN "user"
    ELSE None

\* Mutant: the roles the mapper writes are recognised on input as well.
MapRole_AcceptsAssistant(vapi_role) ==
    IF vapi_role = "user" THEN "assistant"
    ELSE IF vapi_role \in {"bot", "assistant"} THEN "user"
    ELSE IF vapi_role = "system" THEN "system"
    ELSE None

\* The role reversal mapping of transform_vapi_transcript; None stands for
\* the else branch (unknown role, message skipped).
MapRole(vapi_role) ==
    IF vapi_role = "user" THEN "assistant"
    ELSE IF vapi_role = "bot" THEN "user"
    ELSE IF vapi_role = "system" THEN "system"
    ELSE None

\* Mutant: the duration is taken to be in seconds already.
DurationSeconds_NoConversion(duration_ms) == Seconds(duration_ms)

\* duration_seconds = duration_ms / 1000.0
DurationSeconds(duration_ms) == Seconds(duration_ms) \div 1000

\* The body of the for loop of transform_vapi_transcript from message idx
\* (1-based here, 0-based in the prints) on; acc holds the transcript and
\* the lines printed so far.
RECURSIVE TransformFrom(_, _, _)
TransformFrom(vapi_messages, idx, acc) ==
    IF idx > Len(vapi_messages)
    THEN acc
    ELSE
      LET msg          == vapi_messages[idx]
          vapi_role    == Get(msg, "role", "")
          message_text == Get(msg, "message", "")
          coval_role   == MapRole(vapi_role)
      IN  IF coval_role = None
          THEN TransformFrom(vapi_messages, idx + 1,
                 [acc EXCEPT !.out =
                    Append(@, <<"Unknown role, skipping", vapi_role, ToString(idx - 1)>>)])
          ELSE
            LET start_time       == Get(msg, "secondsFromStart", 0)
                duration_ms      == Get(msg, "duration", 0)
                duration_seconds == DurationSeconds(duration_ms)
                end_time         == start_time + duration_seconds
                entry == [role |-> coval_role, content |-> message_text,
                          start_time |-> start_time, end_time |-> end_time]
                stamped == IF "time" \in DOMAIN msg
                           THEN entry @@ ("timestamp" :> msg["time"])
                           ELSE entry
            IN  TransformFrom(vapi_messages, idx + 1,
                  [transcript |-> Append(acc.transcript, stamped),
                   out |-> Append(acc.out, <<vapi_role, coval_role, ToString(idx)>>)])

\* transform_vapi_transcript(): the transcript returned and the lines printed.
transform_vapi_transcript(vapi_messages) ==
    LET r == TransformFrom(vapi_messages, 1,
                           [transcript |-> <<>>,
                            out |-> <<<<"Transforming Vapi transcript...", "">>>>])
    IN  [ret |-> r.transcript,
         out |-> Append(r.out, <<"Transformed messages", ToString(Len(r.transcript))>>)]

\* Mutant: the mapper is called on an empty list of messages as well.
Transform_AlwaysMaps ==
    /\ pc = "transform"
    /\ LET r == transform_vapi_transcript(Get(call_data, "messages", <<>>))
       IN  /\ stdout' = stdout \o r.out
           /\ transcript' = r.ret
    /\ pc' = "upload"
    /\ UNCHANGED <<script, optional, genVars, cfg, calls, exit_code, pollVars, audio_url,
                   call_data, result>>

\* main(): the messages of the call, transformed unless there are none.
Transform ==
    /\ pc = "transform"
    /\ LET vapi_messages == Get(call_data, "messages", <<>>)
       IN  IF vapi_messages = <<>>
           THEN /\ stdout' = Append(stdout, <<"Warning: No messages found in Vapi call", "">>)
                /\ transcript' = <<>>
           ELSE LET r == transform_vapi_transcript(vapi_messages)
                IN  /\ stdout' = stdout \o r.out
                    /\ transcript' = r.ret
    /\ pc' = "upload"
    /\ UNCHANGED <<script, optional, genVars, cfg, calls, exit_code, pollVars, audio_url,
                   call_data, result>>

----------------------------------------------------------------------------
(* generate_test_set.py *)

COVAL_BASE_URL == "https://api.coval.dev/v1"

\* The test cases the LLM returns: n cases, told apart by their input.
GeneratedCases(n) == [i \in 1..n |-> [input |-> ToString(i), description |-> "case"]]

\* main(): test_cases = generate_test_cases(openai_api_key).  The OpenAI
\* call or the parsing of its answer may raise; nothing catches it and the
\* interpreter exits with code 1.
Generate ==
    /\ pc = "generate"
    /\ \E raises \in BOOLEAN, n \in 0..MaxCases :
         /\ calls' = Append(calls, Call("SDK", "openai.chat.completions.create", "",
                                        [kind |-> IF raises THEN "Exception" ELSE "ok",
                                         code |-> 0, body |-> Empty]))
         /\ IF raises
            THEN /\ n = 0
                 /\ stdout' = Append(stdout, <<"Traceback", "generate_test_cases">>)
                 /\ pc' = "exit"
                 /\ exit_code' = 1
                 /\ UNCHANGED test_cases
            ELSE /\ test_cases' = GeneratedCases(n)
                 /\ stdout' = Append(stdout, <<"Generated test cases", ToString(n)>>)
                 /\ pc' = "create_set"
                 /\ UNCHANGED exit_code
    /\ UNCHANGED <<script, optional, cfg, pollVars, uploadVars, test_set_id, created>>

\* What the service may answer to POST /v1/test-sets.
TestSetResponses == Failures \cup {Http(200, [test_set |-> [id |-> "ts1"]])}

\* What the service may answer to POST /v1/test-cases for the i-th case.
TestCaseResponses(i) ==
    Failures \cup {Http(200, [test_case |-> [id |-> ToString(i)]])}

\* requests.post(...) raising, or response.raise_for_status() raising.
Raises(resp) == resp.kind # "http" \/ resp.code >= 400

\* main(): test_set_id = create_test_set(coval_api_key); an exception is
\* not caught.  With no test case to create main() runs to its end.
CreateTestSet ==
    /\ pc = "create_set"
    /\ \E resp \in TestSetResponses :
         /\ calls' = Append(calls, Post(COVAL_BASE_URL, "test-sets", TEST_SET_CONFIG, resp))
         /\ IF Raises(resp)
            THEN /\ stdout' = Append(stdout, <<"Traceback", "create_test_set">>)
                 /\ pc' = "exit"
                 /\ exit_code' = 1
                 /\ UNCHANGED test_set_id
            ELSE /\ test_set_id' = resp.body["test_set"]["id"]
                 /\ IF test_cases = <<>>
                    THEN /\ stdout' = stdout \o <<<<"Created test set", "ts1">>,
                                                   <<"Done! Test set ID", "ts1">>>>
                         /\ pc' = "exit"
                         /\ exit_code' = 0
                    ELSE /\ stdout' = Append(stdout, <<"Created test set", "ts1">>)
                         /\ pc' = "create_case"
                         /\ UNCHANGED exit_code
    /\ UNCHANGED <<script, optional, cfg, pollVars, uploadVars, test_cases, created>>

\* main(): one iteration of `for i, tc in enumerate(test_cases, 1)`; after
\* the last one main() prints the test set and ends.
CreateTestCase ==
    /\ pc = "create_case"
    /\ LET i == Len(created) + 1
       IN  \E resp \in TestCaseResponses(i) :
             /\ calls' = Append(calls,
                                Post(COVAL_BASE_URL, "test-cases",
                                     TestCasePayload(test_set_id, test_cases[i]),
                                     resp))
             /\ IF Raises(resp)
                THEN /\ stdout' = Append(stdout, <<"Traceback", "create_test_case">>)
                     /\ pc' = "exit"
                     /\ exit_code' = 1
                     /\ UNCHANGED created
                ELSE /\ created' = Append(created, resp.body["test_case"]["id"])
                     /\ IF i = Len(test_cases)
                        THEN /\ stdout' = stdout \o <<<<"Created test case", ToString(i)>>,
                                                       <<"Done! Test set ID", test_set_id>>>>
                             /\ pc' = "exit"
                             /\ exit_code' = 0
                        ELSE /\ stdout' = Append(stdout, <<"Created test case", ToString(i)>>)
                             /\ pc' = "create_case"
                             /\ UNCHANGED exit_code
    /\ UNCHANGED <<script, optional, cfg, pollVars, uploadVars, test_cases, test_set_id>>

----------------------------------------------------------------------------
(* Specifications *)

Init ==
    /\ script \in Scripts
    /\ cfg \in SUBSET Required(script)
    /\ pc = "start"
    /\ calls = <<>>
    /\ stdout = <<>>
    /\ exit_code = 0
    /\ run_id = None
    /\ status = None
    /\ responses = <<>>
    /\ remote = None
    /\ audio_url \in IF script = "generic_signed_url_upload"
                     THEN IF "AUDIO_SIGNED_URL" \in cfg
                          THEN {AUDIO_SIGNED_URL}
                          ELSE SignedUrls
                     ELSE {None}
    /\ call_data = NoneDict
    /\ transcript = <<>>
    /\ result = NoneDict
    /\ test_cases = <<>>
    /\ test_set_id = None
    /\ created = <<>>
    /\ optional \in OptionalValues(script)

\* launch_run.py alone.
LaunchInit == Init /\ script = "launch_run"

LaunchNext ==
    \/ CheckConfig
    \/ LaunchRun
    \/ PollQuery
    \/ PollSleep
    \/ RemoteAdvance

Next ==
    \/ LaunchNext
    \/ Upload
    \/ Presign
    \/ Sign
    \/ Validate
    \/ TwilioFetch
    \/ VapiFetch
    \/ Transform
    \/ Generate
    \/ CreateTestSet
    \/ CreateTestCase

Spec == Init /\ [][Next]_vars

\* Every request carries timeout=API_TIMEOUT and time.sleep returns: an
\* iteration of the polling loop that can run does run.
FairSpec ==
    /\ LaunchInit
    /\ [][LaunchNext]_vars
    /\ WF_vars(PollQuery)
    /\ WF_vars(PollSleep)

----------------------------------------------------------------------------
(* Claims about the Status Poller (launch_run.py) *)

Gets == SelectSeq(calls, LAMBDA c : c.method = "GET")

Posts == SelectSeq(calls, LAMBDA c : c.method = "POST")

\* The status a response to a status query carries, None when it carries none.
StatusOf(resp) ==
    IF resp.kind = "http" /\ resp.code = 200 /\ "run" \in DOMAIN resp.body
       /\ "status" \in DOMAIN resp.body["run"]
    THEN resp.body["run"]["status"]
    ELSE None

IsFailure(resp) == resp.kind # "http" \/ resp.code # 200

StillPolling(resp) == ~IsFailure(resp) /\ StatusOf(resp) \in NonTerminal

\* C1: the polling loop stops at the first query that returns a terminal
\* status: that response is the last one received, as many queries were
\* issued as its position, the process has left the loop and the last line
\* printed reports that status as the finishing status.
C1_StopsAtFirstTerminal ==
    script = "launch_run" =>
      \A i \in 1..Len(responses) :
        StatusOf(responses[i]) \in Terminal =>
          /\ i = Len(responses)
          /\ Len(Gets) = i
          /\ pc = "exit"
          /\ Last(stdout) = <<"Run finished with status", StatusOf(responses[i])>>

C1_Witness ==
    /\ script = "launch_run"
    /\ Len(responses) = 3
    /\ StatusOf(responses[1]) = "QUEUED"
    /\ StatusOf(responses[2]) = "RUNNING"
    /\ StatusOf(responses[3]) = "COMPLETED"
    /\ Len(Gets) = 3
    /\ pc = "exit"
    /\ Last(stdout) = <<"Run finished with status", "COMPLETED">>

\* C2: a failed status query (timeout, network error, non-200) is the last
\* query: a failure on the k-th query means exactly k queries were issued,
\* the loop has been left and the last line printed reports the failure.
C2_StopsAtFailedQuery ==
    script = "launch_run" =>
      \A k \in 1..Len(responses) :
        IsFailure(responses[k]) =>
          /\ k = Len(responses)
          /\ Len(Gets) = k
          /\ pc = "exit"
          /\ Last(stdout)[1] \in {"Error: Request timed out",
                                  "Error getting run status",
                                  "Failed to get run status"}

C2_Witness ==
    /\ script = "launch_run"
    /\ Len(responses) = 2
    /\ responses[2] = Timeout
    /\ Len(Gets) = 2
    /\ pc = "exit"
    /\ Last(stdout) = <<"Error: Request timed out", "">>

\* C3: once the run has reached a terminal status on the service, the
\* polling loop eventually halts (every query and every sleep completing).
C3_PollingTerminates ==
    (script = "launch_run" /\ pc \in {"poll", "sleep"} /\ remote \in Terminal)
        ~> (pc = "exit")

C3_Witness ==
    /\ script = "launch_run"
    /\ pc = "exit"
    /\ Len(responses) = 3
    /\ StillPolling(responses[1])
    /\ StillPolling(responses[2])
    /\ remote \in Terminal
    /\ StatusOf(responses[3]) = remote

\* C4: no iteration count ends the loop: after any number of queries that
\* all succeeded with a non-terminal status the process is still in the
\* loop (about to sleep or to query again), never halted.
C4_NoIterationCap ==
    (script = "launch_run" /\ responses # <<>>
       /\ \A i \in 1..Len(responses) : StillPolling(responses[i]))
        => pc \in {"poll", "sleep"}

C4_Witness ==
    /\ script = "launch_run"
    /\ Len(responses) = MaxQueries
    /\ \A i \in 1..Len(responses) : StillPolling(responses[i])
    /\ Len(Gets) = MaxQueries
    /\ pc = "poll"

----------------------------------------------------------------------------
(* Claims about the Submission Client *)

\* The "run" object of a response body, {} when it has none.
RunOf(resp) == IF "run" \in DOMAIN resp.body THEN resp.body["run"] ELSE Empty

\* launch_run.py has received a 200 to its POST.
Launched200 ==
    script = "launch_run" /\ Len(Posts) = 1 /\ ~IsFailure(Posts[1].resp)

\* C5 (as stated): on HTTP 200 launch_run returns the identifier and the
\* status of the created run, so that main() holds both after the call.
C5_ReturnsIdAndStatus ==
    (Launched200 /\ responses = <<>>) =>
        /\ run_id = Get(RunOf(Posts[1].resp), "run_id", None)
        /\ status = Get(RunOf(Posts[1].resp), "status", None)

\* C5 (amended): on HTTP 200 launch_run returns the identifier only, the
\* value of run.run_id in the body (None when the body has none); the status
\* of the body is printed and main() holds no status before its first query.
C5_ReturnsRunIdOnly ==
    Launched200 =>
        /\ run_id = Get(RunOf(Posts[1].resp), "run_id", None)
        /\ \E i \in 1..Len(stdout) :
              stdout[i] = <<"Status", Get(RunOf(Posts[1].resp), "status", None)>>
        /\ responses = <<>> => status = None

C5_Witness ==
    /\ Launched200
    /\ Posts[1].resp.body = [run |-> [run_id |-> "r1", status |-> "QUEUED"]]
    /\ run_id = "r1"
    /\ pc = "poll"

\* The POSTs that create a run or a conversation.
Submissions ==
    SelectSeq(calls, LAMBDA c : c.method = "POST"
                                /\ c.url \in {RUNS_API_URL, COVAL_API_URL})

\* C6: when the POST of launch_run or of an upload_to_coval meets a non-200
\* response, a timeout or a connection failure, the function returns None
\* and that POST is the only submission of the process (no retry).
C6_FailedSubmissionNotRetried ==
    \A i \in 1..Len(Submissions) :
        IsFailure(Submissions[i].resp) =>
            /\ Len(Submissions) = 1
            /\ pc = "exit"
            /\ IF script = "launch_run" THEN run_id = None ELSE result = NoneDict

C6_Witness ==
    /\ script = "generic_signed_url_upload"
    /\ Len(Submissions) = 1
    /\ Submissions[1].resp = Http(500, Empty)
    /\ result = NoneDict
    /\ pc = "exit"

\* C7 (as stated): while a required configuration value is at its
\* placeholder no network or SDK call is issued, and the process halts with
\* a non-zero exit code.
C7_PlaceholderHaltsBeforeNetwork ==
    cfg # {} =>
        /\ calls = <<>>
        /\ pc = "exit" => exit_code = 1

----------------------------------------------------------------------------
(* Claims about the Transcript Mapper (vapi_upload.py) *)

\* main() of vapi_upload.py is past the transformation of the call's messages.
Transformed ==
    script = "vapi_upload" /\ pc \in {"upload", "exit"} /\ TruthyDict(call_data)

InputMessages ==
    IF "messages" \in DOMAIN call_data THEN call_data["messages"] ELSE <<>>

RoleOf(msg) == IF "role" \in DOMAIN msg THEN msg["role"] ELSE ""

TextOf(msg) == IF "message" \in DOMAIN msg THEN msg["message"] ELSE ""

\* The positions of the messages with a recognised role, in input order.
RECURSIVE KeptFrom(_, _)
KeptFrom(ms, i) ==
    IF i > Len(ms) THEN <<>>
    ELSE (IF RoleOf(ms[i]) \in {"user", "bot", "system"} THEN <<i>> ELSE <<>>)
         \o KeptFrom(ms, i + 1)

Kept == KeptFrom(InputMessages, 1)

Skips == SelectSeq(stdout, LAMBDA line : line[1] = "Unknown role, skipping")

\* C8: the transcript is the in-order subsequence of the messages with a
\* recognised role, one entry per such message: it is no longer than the
\* input, its k-th entry is made from the k-th recognised message, and each
\* other message is skipped with one diagnostic.
C8_InOrderSubsequence ==
    Transformed =>
        /\ Len(transcript) = Len(Kept)
        /\ Len(transcript) <= Len(InputMessages)
        /\ Len(Skips) = Len(InputMessages) - Len(Kept)
        /\ \A k \in DOMAIN transcript \cap DOMAIN Kept :
              LET msg == InputMessages[Kept[k]]
              IN  /\ transcript[k].content = TextOf(msg)
                  /\ "secondsFromStart" \in DOMAIN msg =>
                        transcript[k].start_time = msg["secondsFromStart"]

C8_Witness ==
    /\ Transformed
    /\ Len(InputMessages) = 3
    /\ RoleOf(InputMessages[1]) = "alien"
    /\ RoleOf(InputMessages[2]) = "system"
    /\ RoleOf(InputMessages[3]) = ""
    /\ Len(transcript) = 1
    /\ transcript[1].content = TextOf(InputMessages[2])
    /\ Len(Skips) = 2

\* C9: roles are relabelled by the reversed table: "user" gives "assistant",
\* "bot" gives "user", "system" gives "system"; the entry's text is the
\* message's text; no entry has a role outside user, assistant, system.
C9_RoleReversal ==
    Transformed =>
        \A k \in DOMAIN transcript \cap DOMAIN Kept :
            LET msg == InputMessages[Kept[k]]
            IN  /\ RoleOf(msg) = "user" => transcript[k].role = "assistant"
                /\ RoleOf(msg) = "bot" => transcript[k].role = "user"
                /\ RoleOf(msg) = "system" => transcript[k].role = "system"
                /\ transcript[k].role \in {"user", "assistant", "system"}
                /\ transcript[k].content = TextOf(msg)

C9_Witness ==
    /\ Transformed
    /\ InputMessages =
         <<[role |-> "user", message |-> "hi", secondsFromStart |-> 1000,
            duration |-> 500],
           [role |-> "bot", message |-> "hello", secondsFromStart |-> 2000,
            duration |-> 1000],
           [role |-> "alien", message |-> "?"]>>
    /\ Len(transcript) = 2
    /\ transcript[1].role = "assistant" /\ transcript[1].content = "hi"
    /\ transcript[2].role = "user" /\ transcript[2].content = "hello"

\* C10: start_time is the message's secondsFromStart unchanged (0 when it
\* has none) and end_time is start_time plus the duration converted from
\* milliseconds to seconds, hence not before start_time for a non-negative
\* duration.  With seconds held in thousandths, d ms are d thousandths.
C10_Timing ==
    Transformed =>
        \A k \in DOMAIN transcript \cap DOMAIN Kept :
            LET msg == InputMessages[Kept[k]]
                secondsFromStart == IF "secondsFromStart" \in DOMAIN msg
                                    THEN msg["secondsFromStart"] ELSE 0
                duration == IF "duration" \in DOMAIN msg THEN msg["duration"] ELSE 0
            IN  /\ transcript[k].start_time = secondsFromStart
                /\ transcript[k].end_time = transcript[k].start_time + duration
                /\ duration >= 0 => transcript[k].end_time >= transcript[k].start_time

C10_Witness ==
    /\ Transformed
    /\ Len(transcript) = 2
    /\ InputMessages =
         <<[role |-> "system", message |-> "hi", secondsFromStart |-> 1000,
            duration |-> 500],
           [role |-> "user", message |-> "hello", secondsFromStart |-> 2000,
            duration |-> 1000]>>
    /\ transcript[1].start_time = 1000 /\ transcript[1].end_time = 1500
    /\ transcript[2].start_time = 2000 /\ transcript[2].end_time = 3000

\* The mapper applied to the transcript it returned.
MappedTwice == transform_vapi_transcript(transcript).ret

\* The positions of the transcript entries that a second application keeps.
RECURSIVE KeptAgainFrom(_, _)
KeptAgainFrom(t, i) ==
    IF i > Len(t) THEN <<>>
    ELSE (IF t[i].role \in {"user", "system"} THEN <<i>> ELSE <<>>)
         \o KeptAgainFrom(t, i + 1)

KeptAgain == KeptAgainFrom(transcript, 1)

\* C11: the mapper is not idempotent.  Applied to its own output it drops
\* every entry with role "assistant" (unrecognised on input), relabels every
\* entry with role "user" as "assistant" and keeps "system"; so whenever
\* the first result holds an "assistant" or a "user" entry, the second
\* result differs from the first.
C11_NotIdempotent ==
    Transformed =>
        /\ Len(MappedTwice) = Len(KeptAgain)
        /\ \A k \in 1..Len(KeptAgain) :
              MappedTwice[k].role =
                  (IF transcript[KeptAgain[k]].role = "user" THEN "assistant"
                   ELSE "system")
        /\ (\E i \in 1..Len(transcript) : transcript[i].role \in {"user", "assistant"})
              => MappedTwice # transcript

\* A call with a user, a bot and a system message has been transformed: the
\* second application loses the "assistant" entry and differs from the first.
C11_Witness ==
    /\ Transformed
    /\ Len(transcript) = 3
    /\ transcript[1].role = "assistant"
    /\ transcript[2].role = "user"
    /\ transcript[3].role = "system"
    /\ Len(MappedTwice) = 2
    /\ MappedTwice[1].role = "assistant"
    /\ MappedTwice[2].role = "system"
    /\ MappedTwice # transcript

----------------------------------------------------------------------------
(* Claims about the payloads and the number of submissions *)

\* The names of the fields the service assigns to a created resource: its
\* identifier, its status and its creation time.
ServerAssigned ==
    {"run_id", "conversation_id", "id", "status", "create_time", "created_at"}

\* C12: no submission carries a server-assigned field (the identifier of the
\* resource to create, its status, its creation time) at the top level of
\* its payload, whatever the arguments and the configuration; a status may
\* only appear inside the nested metadata.
C12_NoServerAssignedField ==
    \A i \in 1..Len(Submissions) :
        DOMAIN Submissions[i].payload \cap ServerAssigned = {}

\* vapi_upload.py has submitted a call with a recording and metric ids: the
\* status of the call sits inside the metadata, the top level holds the
\* six client fields only.
C12_Witness ==
    /\ script = "vapi_upload"
    /\ Len(Submissions) = 1
    /\ Submissions[1].payload["metadata"]["status"] = "ended"
    /\ DOMAIN Submissions[1].payload =
          {"transcript", "external_conversation_id", "occurred_at", "metadata",
           "audio_url", "metrics"}

\* The POSTs of generate_test_set.py that create a test set / a test case.
TestSetPosts == SelectSeq(Posts, LAMBDA c : c.arg = "test-sets")

TestCasePosts == SelectSeq(Posts, LAMBDA c : c.arg = "test-cases")

\* The polling loops entered so far: main() of launch_run.py prints
\* "Monitoring run status..." right before its `while True`.
PollingLoops ==
    Len(SelectSeq(stdout, LAMBDA line : line[1] = "Monitoring run status..."))

\* C13 as stated: every script, generate_test_set.py included, issues at
\* most one resource-creating POST and enters at most one polling loop per
\* process run.
C13_AtMostOneSubmission ==
    Len(Posts) <= 1 /\ PollingLoops <= 1

\* C13, amended: every script but generate_test_set.py issues at most one
\* resource-creating POST per process run, and only launch_run.py polls, in
\* at most one loop; generate_test_set.py issues at most one POST /test-sets
\* and then one POST /test-cases per generated test case (all of them when
\* it ends with exit code 0).
C13_OneSubmissionButTestCases ==
    /\ PollingLoops <= 1
    /\ script # "launch_run" => PollingLoops = 0
    /\ script # "generate_test_set" => Len(Posts) <= 1
    /\ script = "generate_test_set" =>
          /\ Len(TestSetPosts) <= 1
          /\ Len(TestCasePosts) <= Len(test_cases)
          /\ Len(Posts) = Len(TestSetPosts) + Len(TestCasePosts)
          /\ (pc = "exit" /\ exit_code = 0 /\ calls # <<>>) =>
                Len(Posts) = 1 + Len(test_cases)

\* generate_test_set.py has ended normally after creating a test set and
\* MaxCases test cases: one POST more than there are test cases.
C13_Witness ==
    /\ script = "generate_test_set"
    /\ pc = "exit" /\ exit_code = 0
    /\ Len(test_cases) = MaxCases
    /\ Len(Posts) = MaxCases + 1

----------------------------------------------------------------------------
(* Claims about the state of the Status Poller (launch_run.py) *)

\* The status the service returned with the submission, None when it
\* returned none.
SubmissionStatus ==
    IF Launched200 THEN Get(RunOf(Posts[1].resp), "status", None) ELSE None

\* The Status Poller is in a polling (non-halted) state.
Polling == script = "launch_run" /\ pc \in {"poll", "sleep"}

\* C14 as stated: the poller's current status starts as the status returned
\* by the submission and is then the status of the latest query, and the
\* poller is never polling while that status is terminal, also when the
\* submission itself returned a terminal status.
C14_NeverPollingWhileTerminal ==
    Polling =>
        (IF responses = <<>> THEN SubmissionStatus ELSE status) \notin Terminal

\* C14, amended: main() holds no status until its first query (the status
\* returned by the submission is not kept), each query replaces the status
\* by the one it returned (None for a failed query), the loop is left after
\* a query that returned a terminal status or failed, and main() is never
\* polling while the status it holds is terminal.
C14_PollerFollowsQueries ==
    script = "launch_run" =>
        /\ responses = <<>> => status = None
        /\ responses # <<>> => status = StatusOf(Last(responses))
        /\ Polling => status \notin Terminal
        /\ (Polling /\ responses # <<>>) => Truthy(status)
        /\ (responses # <<>>
              /\ (IsFailure(Last(responses)) \/ StatusOf(Last(responses)) \in Terminal))
             => pc = "exit"

\* The submission returned the terminal status "COMPLETED" with a run id,
\* main() went on to poll, and the one query it issued returned "COMPLETED"
\* and halted the poller.
C14_Witness ==
    /\ script = "launch_run"
    /\ SubmissionStatus = "COMPLETED"
    /\ Len(responses) = 1
    /\ status = "COMPLETED"
    /\ pc = "exit"

\* Polling has stopped because a status query failed.
StoppedOnFailedQuery ==
    /\ script = "launch_run"
    /\ pc = "exit"
    /\ responses # <<>>
    /\ IsFailure(Last(responses))

\* The last known status: the status of the most recent successful query,
\* None if no query succeeded.
LastKnownStatus ==
    LET ok == SelectSeq(responses, LAMBDA r : ~IsFailure(r))
    IN  IF ok = <<>> THEN None ELSE StatusOf(Last(ok))

\* The lines main() printed for the statuses it received.
CurrentStatusLines == SelectSeq(stdout, LAMBDA line : line[1] = "Current status")

\* C15 as stated: when polling stops because a status query failed, the
\* last known status is reported to the operator: the output ends with a
\* line that carries it.
C15_LastKnownStatusReported ==
    (StoppedOnFailedQuery /\ LastKnownStatus # None) =>
        Last(stdout)[2] = LastKnownStatus

\* C15, amended: when polling stops because a status query failed, the
\* failure message of get_run_status is the last line printed, main() holds
\* no status any more and ends with exit code 0 without a finishing line; the
\* last known status is on the console only as the "Current status" line of
\* the iteration before, and there is no such line when no query succeeded.
C15_OnlyFailureReportedAtStop ==
    StoppedOnFailedQuery =>
        /\ status = None
        /\ exit_code = 0
        /\ Last(stdout)[1] \in {"Error: Request timed out",
                                "Error getting run status",
                                "Failed to get run status"}
        /\ \A i \in 1..Len(stdout) : stdout[i][1] # "Run finished with status"
        /\ IF LastKnownStatus = None
           THEN CurrentStatusLines = <<>>
           ELSE /\ Last(CurrentStatusLines) = <<"Current status", LastKnownStatus>>
                /\ stdout[Len(stdout) - 1] = <<"Current status", LastKnownStatus>>

\* Two queries returned "QUEUED" and "RUNNING", the third got a 500: the
\* output ends with the failure message, "RUNNING" is in the line before.
C15_Witness ==
    /\ StoppedOnFailedQuery
    /\ Len(responses) = 3
    /\ StatusOf(responses[1]) = "QUEUED"
    /\ LastKnownStatus = "RUNNING"
    /\ Last(responses) = Http(500, Empty)
    /\ Last(stdout) = <<"Failed to get run status", "500">>
    /\ stdout[Len(stdout) - 1] = <<"Current status", "RUNNING">>
    /\ status = None

----------------------------------------------------------------------------
(* Claims about failures part-way (generate_test_set.py, vapi_upload.py) *)

\* generate_test_set.py has ended on an exception after its first call.
GenerationFailed ==
    /\ script = "generate_test_set"
    /\ pc = "exit"
    /\ exit_code = 1
    /\ calls # <<>>

\* C16: there is no partial success: when generate_test_set.py fails, none
\* of its remote creations is left committed; in particular a failure on
\* the k-th test case does not leave the test set with the k-1 test cases
\* created before it.
C16_NoPartialSuccess ==
    GenerationFailed => test_set_id = None /\ created = <<>>

\* The calls of transform_vapi_transcript so far: each prints
\* "Transforming Vapi transcript..." first.
TransformCalls ==
    Len(SelectSeq(stdout, LAMBDA line : line[1] = "Transforming Vapi transcript..."))

\* C17 as stated: in vapi_upload.py every run that reached upload_to_coval
\* has called transform_vapi_transcript exactly once before, and
\* upload_to_coval is called at most once.
C17_MappedExactlyOnceBeforeUpload ==
    script = "vapi_upload" =>
        /\ Len(Submissions) <= 1
        /\ Submissions # <<>> => TransformCalls = 1

\* C17, amended: in vapi_upload.py upload_to_coval is called at most once
\* and transform_vapi_transcript at most once, never after the submission;
\* a run that reached upload_to_coval has called the mapper exactly once
\* before when the call has messages, and not at all when it has none (the
\* transcript submitted is then the empty list).
C17_MappedOnceIfMessages ==
    script = "vapi_upload" =>
        /\ Len(Submissions) <= 1
        /\ TransformCalls <= 1
        /\ pc \in {"start", "fetch", "transform"} =>
              TransformCalls = 0 /\ Submissions = <<>>
        /\ (pc = "upload" \/ Submissions # <<>>) =>
              /\ TransformCalls = (IF InputMessages = <<>> THEN 0 ELSE 1)
              /\ InputMessages = <<>> => transcript = <<>>
        /\ Submissions # <<>> => Submissions[1].payload["transcript"] = transcript

\* A call with two messages was transformed once and then submitted once.
C17_Witness ==
    /\ script = "vapi_upload"
    /\ pc = "exit"
    /\ Len(InputMessages) = 2
    /\ TransformCalls = 1
    /\ Len(Submissions) = 1
    /\ Len(transcript) = 2

----------------------------------------------------------------------------
(* Claims about what main() does with the answers it gets *)

\* The identifier the service returned with the submission, None when the
\* submission failed or its body names none.
SubmittedId ==
    IF Launched200 THEN Get(RunOf(Posts[1].resp), "run_id", None) ELSE None

\* C18: launch_run.py issues no status query unless the submission returned
\* a non-empty run identifier: after a failed submission or a 200 whose body
\* has no run_id (missing, None or "") main() exits with code 1 and has
\* issued no GET; and every GET issued targets the identifier returned.
C18_NoQueryWithoutRunId ==
    script = "launch_run" =>
        /\ Gets # <<>> => SubmittedId \notin {None, ""}
        /\ \A i \in 1..Len(Gets) :
              Gets[i].url = RUNS_API_URL /\ Gets[i].arg = SubmittedId
        /\ (Posts # <<>> /\ SubmittedId \in {None, ""}) =>
              /\ pc = "exit"
              /\ exit_code = 1
              /\ Gets = <<>>
              /\ Last(stdout) = <<"Failed to launch run", "">>

\* The submission got a 200 whose run has an empty run_id: main() has
\* exited with code 1 without a query.
C18_Witness ==
    /\ Launched200
    /\ Posts[1].resp.body = [run |-> [run_id |-> "", status |-> "QUEUED"]]
    /\ pc = "exit"
    /\ exit_code = 1
    /\ Gets = <<>>

\* A 200 response to a status query whose body carries no usable
\* run.status: the key is missing, or its value is None or "".
NoStatus200(resp) == ~IsFailure(resp) /\ StatusOf(resp) \in {None, ""}

\* C19: a 200 status response without a run.status is treated like a failed
\* query: it is the last query, the loop is left at once, nothing is printed
\* for it (no current status, no finishing status), and the process ends
\* with exit code 0, as it does after a terminal status.
C19_NoStatusStopsPolling ==
    script = "launch_run" =>
        /\ \A k \in 1..Len(responses) :
              NoStatus200(responses[k]) =>
                /\ k = Len(responses)
                /\ Len(Gets) = k
                /\ pc = "exit"
                /\ exit_code = 0
                /\ \A i \in 1..Len(stdout) : stdout[i][1] # "Run finished with status"
                /\ Len(CurrentStatusLines) = k - 1
                /\ Last(stdout)[1] \in {"Monitoring run status...", "Current status"}
        /\ (responses # <<>> /\ StatusOf(Last(responses)) \in Terminal) =>
              pc = "exit" /\ exit_code = 0

\* After "RUNNING" the second query got a 200 whose run has no status key:
\* the process has ended with code 0 and "Current status: RUNNING" is the
\* last line printed.
C19_Witness ==
    /\ script = "launch_run"
    /\ Len(responses) = 2
    /\ StatusOf(responses[1]) = "RUNNING"
    /\ responses[2] = Http(200, [run |-> [run_id |-> run_id]])
    /\ pc = "exit"
    /\ exit_code = 0
    /\ Last(stdout) = <<"Current status", "RUNNING">>

\* The outcome of the head_object call of aws_upload.py allows the upload:
\* the object exists and is not larger than MAX_FILE_SIZE_MB.
HeadObjectAllows(head) ==
    /\ head.kind = "ok"
    /\ head.body["ContentLength"] <= MAX_FILE_SIZE_MB * 1024 * 1024

\* main() got through its placeholder checks.
ConfigAccepted ==
    \A i \in 1..Len(Checked(script)) : Checked(script)[i] \notin cfg

\* C20: aws_upload.py submits only after head_object succeeded with a
\* content length of at most 200 MB and a presigned URL was produced, and
\* otherwise exits with code 1 without a submission;
\* generic_signed_url_upload.py submits whatever validate_audio_url
\* returned, a failed validation only adding a warning.
C20_GateBeforeUpload ==
    /\ script = "aws_upload" =>
          /\ Submissions # <<>> =>
                /\ calls[1].url = "s3.head_object"
                /\ HeadObjectAllows(calls[1].resp)
                /\ audio_url = S3Url
                /\ Submissions[1].payload["audio_url"] = S3Url
          /\ (calls # <<>> /\ (~HeadObjectAllows(calls[1].resp) \/ audio_url = None)) =>
                /\ pc = "exit"
                /\ exit_code = 1
                /\ Submissions = <<>>
    /\ (script = "generic_signed_url_upload" /\ pc = "exit") =>
          Len(Submissions) = (IF ConfigAccepted THEN 1 ELSE 0)

\* aws_upload.py has submitted an object of exactly 200 MB.
C20_Witness ==
    /\ script = "aws_upload"
    /\ Len(Submissions) = 1
    /\ calls[1].resp.kind = "ok"
    /\ calls[1].resp.body["ContentLength"] = 200 * 1024 * 1024
    /\ Submissions[1].payload["audio_url"] = S3Url

====
